---- MODULE Spec2Model ----
(***************************************************************************)
(* Model of src/src/05-objects-tasks.js: the css selector builder          *)
(* (MyCssSelector and the cssSelectorBuilder facade), specification Spec;  *)
(* Rectangle, specification SpecRect; fromJSON, specification SpecJson.    *)
(*                                                                         *)
(* Builder instances are heap objects, named 1..n in allocation order; 0   *)
(* names the facade object cssSelectorBuilder, which has no items.  A      *)
(* string is a sequence of one-character strings, so that the template     *)
(* literals of add and the join of stringify are real concatenations.      *)
(***************************************************************************)
EXTENDS Integers, Sequences, FiniteSets, TLC

\* ---------------------------------------------------------------- bounds
\* Instances allocated, items held by one instance, and calls made in a run.
MaxBuilders == 3
MaxLen == 5
MaxCalls == 4
\* The largest width or height a caller passes to Rectangle.
MaxDim == 4
\* Objects alive in a run of fromJSON calls, and members of a JSON text.
MaxObjs == 2
MaxPairs == 2

\* Arguments the callers pass: selector names and combinator tokens.
Names == {<<"t", "d">>}
Tokens == {<<"+">>}

\* ------------------------------------------- MyCssSelector.ITEM_TYPES
ELEMENT == 0
ID == 1
CLASS == 2
ATTR == 3
PSEUDO_CLASS == 4
PSEUDO_ELEMENT == 5
COMBINATOR == 6
SELECTOR == 7

\* The kinds the facade's six append methods pass to add.
AppendTypes == {ELEMENT, ID, CLASS, ATTR, PSEUDO_CLASS, PSEUDO_ELEMENT}

\* Variant: the pseudo-element left out of the disposable types.
disposableTypes_noPseudo == {ELEMENT, ID}

\* this.disposableTypes, set by the constructor.
disposableTypes == {ELEMENT, ID, PSEUDO_ELEMENT}

Builders == 1..MaxBuilders

VARIABLES
  items,      \* items[b]: this.items of instance b (<<>> while unallocated)
  n,          \* number of instances allocated so far by new MyCssSelector()
  combined,   \* history: instances that were selector1 of a combine
  calls,      \* history: number of append and combine calls made so far
  last,       \* the last call: its arguments, its outcome, the heap before it
  rect,       \* the object Rectangle last returned (<<>> before the first call)
  written,    \* history: the values last written to width and height, and
              \* whether the caller wrote them after Rectangle returned
  rcall,      \* the last call or write on the rectangle
  objs,       \* the objects fromJSON's callers and fromJSON allocated
  jcall       \* the last fromJSON call: arguments, outcome, objects before

builderVars == <<items, n, combined, calls, last>>
rectVars == <<rect, written, rcall>>
jsonVars == <<objs, jcall>>
vars == <<builderVars, rectVars, jsonVars>>

\* ------------------------------------------------------- MyCssSelector
\* Variant: the default array is one shared array, so a new instance starts
\* with the items of the instance allocated before it.
NewItems_shared(h, k) == IF k > 0 THEN h[k] ELSE <<>>

\* constructor(items = []): the default is a fresh empty array per call.
\* h is the heap and k the number of instances allocated before this one.
NewItems(h, k) == <<>>

\* typesCounter of validate: for each disposable type, the number of items
\* of that type.
typesCounter(its) ==
  [t \in disposableTypes |->
     Cardinality({i \in DOMAIN its : its[i].type = t})]

\* The first check of validate.
IsDuplicate(its, type) ==
  type \in disposableTypes /\ typesCounter(its)[type] = 1

\* Variants of the second check: the comparison reversed, the comparison
\* made non-strict, and the comparison made with the first item.
IsMisordered_reversed(its, type) ==
  Len(its) > 0 /\ type > its[Len(its)].type

IsMisordered_nonStrict(its, type) ==
  Len(its) > 0 /\ type <= its[Len(its)].type

IsMisordered_first(its, type) ==
  Len(its) > 0 /\ type < its[1].type

\* The second check of validate: lastItem && type < lastItem.type.
IsMisordered(its, type) ==
  Len(its) > 0 /\ type < its[Len(its)].type

\* validate(type): the error it throws, or "ok".
validate(its, type) ==
  IF IsDuplicate(its, type) THEN "dup"
  ELSE IF IsMisordered(its, type) THEN "order"
  ELSE "ok"

\* Variant: the pseudo-element rendered with a single colon.
newValue_oneColon(value, type) ==
  CASE type = ID -> <<"#">> \o value
    [] type = CLASS -> <<".">> \o value
    [] type = ATTR -> <<"[">> \o value \o <<"]">>
    [] type = PSEUDO_CLASS -> <<":">> \o value
    [] type = PSEUDO_ELEMENT -> <<":">> \o value
    [] type = COMBINATOR -> <<" ">> \o value \o <<" ">>
    [] OTHER -> value

\* The switch of add: the text stored for a value of a type.
newValue(value, type) ==
  CASE type = ID -> <<"#">> \o value
    [] type = CLASS -> <<".">> \o value
    [] type = ATTR -> <<"[">> \o value \o <<"]">>
    [] type = PSEUDO_CLASS -> <<":">> \o value
    [] type = PSEUDO_ELEMENT -> <<":", ":">> \o value
    [] type = COMBINATOR -> <<" ">> \o value \o <<" ">>
    [] OTHER -> value

\* Variant: the push made before validate runs, so a rejected call leaves
\* the item behind.
add_pushFirst(h, self, value, type) ==
  LET pushed == IF type = SELECTOR
                THEN [h EXCEPT ![self] = @ \o h[value]]
                ELSE [h EXCEPT ![self] =
                        Append(@, [value |-> newValue(value, type),
                                   type |-> type])]
      err == IF type # SELECTOR THEN validate(h[self], type) ELSE "ok"
  IN [heap |-> pushed, err |-> err]

\* Variant: the items of the absorbed selector moved instead of copied, which
\* empties it.
add_moveItems(h, self, value, type) ==
  LET err == IF type # SELECTOR THEN validate(h[self], type) ELSE "ok"
  IN IF err # "ok"
     THEN [heap |-> h, err |-> err]
     ELSE IF type = SELECTOR
     THEN [heap |-> [b \in DOMAIN h |->
                       IF b = self THEN h[self] \o h[value]
                       ELSE IF b = value THEN <<>> ELSE h[b]],
           err |-> "ok"]
     ELSE [heap |-> [h EXCEPT ![self] =
                       Append(@, [value |-> newValue(value, type),
                                  type |-> type])],
           err |-> "ok"]

\* add(value, type) called on instance self in heap h.  For SELECTOR the
\* value is an instance and its items are read when the push happens.
add(h, self, value, type) ==
  LET err == IF type # SELECTOR THEN validate(h[self], type) ELSE "ok"
  IN IF err # "ok"
     THEN [heap |-> h, err |-> err]
     ELSE IF type = SELECTOR
     THEN [heap |-> [h EXCEPT ![self] = @ \o h[value]], err |-> "ok"]
     ELSE [heap |-> [h EXCEPT ![self] =
                       Append(@, [value |-> newValue(value, type),
                                  type |-> type])],
           err |-> "ok"]

\* Variant: join() without its argument, which separates with commas.
RECURSIVE join_comma(_)
join_comma(its) ==
  IF its = <<>> THEN <<>>
  ELSE IF Len(its) = 1 THEN Head(its).value
  ELSE Head(its).value \o <<",">> \o join_comma(Tail(its))

\* stringify(): items.map(({ value }) => value).join('').
RECURSIVE join(_)
join(its) ==
  IF its = <<>> THEN <<>> ELSE Head(its).value \o join(Tail(its))

stringify(its) == join(its)

\* --------------------------------------------------- cssSelectorBuilder
\* Variant: the absorbed selector's items checked against selector1 by the
\* first check of validate before they are pushed.
combine_revalidate(h, selector1, combinator, selector2) ==
  LET r1 == add(h, selector1, combinator, COMBINATOR)
  IN IF r1.err # "ok" THEN r1
     ELSE IF \E i \in DOMAIN h[selector2] :
               IsDuplicate(h[selector1], h[selector2][i].type)
     THEN [heap |-> h, err |-> "dup"]
     ELSE add(r1.heap, selector1, selector2, SELECTOR)

\* combine(selector1, combinator, selector2): two chained adds on selector1.
combine(h, selector1, combinator, selector2) ==
  LET r1 == add(h, selector1, combinator, COMBINATOR)
  IN IF r1.err # "ok" THEN r1
     ELSE add(r1.heap, selector1, selector2, SELECTOR)

\* ------------------------------------------------------------ Rectangle
\* The widths and heights the callers pass or write.
Dims == (-1)..MaxDim

\* Rectangle(width, height): the object literal it returns; getArea is the
\* operator below, applied to the object it is called on.
Rectangle(width, height) == [width |-> width, height |-> height]

\* Variant: the width multiplied by itself.
getArea_square(this) == this.width * this.width

\* getArea(): this.width * this.height.
getArea(this) == this.width * this.height

NoRectCall == [op |-> "none", w |-> 0, h |-> 0, area |-> 0]

\* -------------------------------------------------------------- fromJSON
\* An object is a kind (the constructor its prototype names) and its own
\* enumerable fields, a function from field names to values.  A JSON text of
\* an object is its members in the order written and whether the closing
\* brace is there; a member is <<name, value>>.
NoFields == [f \in {} |-> "undefined"]

\* The constructors the callers' templates name, and what each sets when
\* called without arguments: Object sets nothing, Circle(radius) stores its
\* missing argument, Point() stores its coordinates' defaults.
Kinds == {"Object", "Circle", "Point"}

Construct(kind) ==
  IF kind = "Circle" THEN [f \in {"radius"} |-> "undefined"]
  ELSE IF kind = "Point" THEN [f \in {"x", "y"} |-> "0"]
  ELSE NoFields

\* The own fields of the templates the callers pass: none (X.prototype), the
\* defaults (new X()), or values of the caller's.
TemplateFields(kind) ==
  {NoFields, Construct(kind), [f \in DOMAIN Construct(kind) |-> "5"]}

\* The JSON texts the callers pass.
MemberNames == {"radius", "x"}
MemberValues == {"1", "2"}
Members == MemberNames \X MemberValues

RECURSIVE MemberSeqs(_)
MemberSeqs(k) ==
  IF k = 0 THEN {<<>>}
  ELSE LET shorter == MemberSeqs(k - 1)
       IN shorter \cup {Append(q, m) : q \in shorter, m \in Members}

Texts ==
  {[members |-> q, closed |-> TRUE] : q \in MemberSeqs(MaxPairs)}
    \cup {[members |-> <<>>, closed |-> FALSE]}

\* JSON.parse on the members read so far: a later member of the same name
\* replaces the earlier one.
RECURSIVE parseMembers(_)
parseMembers(q) ==
  IF q = <<>> THEN NoFields
  ELSE LET before == parseMembers(SubSeq(q, 1, Len(q) - 1))
           m == q[Len(q)]
       IN [f \in DOMAIN before \cup {m[1]} |->
             IF f = m[1] THEN m[2] ELSE before[f]]

\* JSON.parse(json): the parsed object, or the SyntaxError it throws.
JSONparse(json) ==
  IF json.closed
  THEN [err |-> "ok", value |-> parseMembers(json.members)]
  ELSE [err |-> "SyntaxError", value |-> NoFields]

\* Variant: the fields the target already has are kept.
assign_keepTarget(target, source) ==
  [f \in DOMAIN target \cup DOMAIN source |->
     IF f \in DOMAIN target THEN target[f] ELSE source[f]]

\* Object.assign(target, source): the fields of target after the call.
assign(target, source) ==
  [f \in DOMAIN target \cup DOMAIN source |->
     IF f \in DOMAIN source THEN source[f] ELSE target[f]]

\* Variant: the parsed fields assigned to proto itself, which is returned.
fromJSON_onTemplate(h, proto, json) ==
  LET parsed == JSONparse(json)
  IN IF parsed.err # "ok"
     THEN [heap |-> h, ret |-> 0, err |-> parsed.err]
     ELSE [heap |-> [h EXCEPT ![proto].fields = assign(@, parsed.value)],
           ret |-> proto, err |-> "ok"]

\* fromJSON(proto, json) in the heap h of objects: new proto.constructor(),
\* Object.assign(obj, JSON.parse(json)), return obj.  When JSON.parse throws,
\* the object just constructed is unreachable and is left out of the heap.
fromJSON(h, proto, json) ==
  LET obj == [kind |-> h[proto].kind, fields |-> Construct(h[proto].kind)]
      parsed == JSONparse(json)
  IN IF parsed.err # "ok"
     THEN [heap |-> h, ret |-> 0, err |-> parsed.err]
     ELSE [heap |-> Append(h, [obj EXCEPT !.fields = assign(@, parsed.value)]),
           ret |-> Len(h) + 1, err |-> "ok"]

NoJsonCall ==
  [op |-> "none", proto |-> 0, json |-> [members |-> <<>>, closed |-> TRUE],
   err |-> "ok", ret |-> 0, pre |-> <<>>]

NoCall ==
  [op |-> "none", self |-> 0, type |-> 0, value |-> <<>>, other |-> 0,
   err |-> "ok", ret |-> 0, out |-> <<>>, pre |-> [b \in Builders |-> <<>>]]

Init ==
  /\ items = [b \in Builders |-> <<>>]
  /\ n = 0
  /\ combined = {}
  /\ calls = 0
  /\ last = NoCall
  /\ rect = <<>>
  /\ written = [width |-> 0, height |-> 0,
                wroteWidth |-> FALSE, wroteHeight |-> FALSE]
  /\ rcall = NoRectCall
  /\ objs = <<>>
  /\ jcall = NoJsonCall

\* cssSelectorBuilder.element/id/class/attr/pseudoClass/pseudoElement called
\* on the facade: this.add is cssSelectorBuilder.add, `this` is not a
\* MyCssSelector, so a new instance is allocated and add runs on it.
FacadeAppend(type, value) ==
  /\ n < MaxBuilders
  /\ calls < MaxCalls
  /\ calls' = calls + 1
  /\ LET self == n + 1
         h0 == [items EXCEPT ![self] = NewItems(items, n)]
         r == add(h0, self, value, type)
     IN /\ items' = r.heap
        /\ n' = self
        /\ last' = [NoCall EXCEPT !.op = "facade", !.self = self,
                      !.type = type, !.value = value, !.err = r.err,
                      !.ret = IF r.err = "ok" THEN self ELSE 0,
                      !.pre = items]
  /\ UNCHANGED combined
  /\ UNCHANGED <<rectVars, jsonVars>>

\* The same six methods called on an instance: this.add is
\* MyCssSelector.prototype.add.
InstanceAppend(self, type, value) ==
  /\ self \in 1..n
  /\ Len(items[self]) < MaxLen
  /\ calls < MaxCalls
  /\ calls' = calls + 1
  /\ LET r == add(items, self, value, type)
     IN /\ items' = r.heap
        /\ last' = [NoCall EXCEPT !.op = "append", !.self = self,
                      !.type = type, !.value = value, !.err = r.err,
                      !.ret = IF r.err = "ok" THEN self ELSE 0,
                      !.pre = items]
  /\ UNCHANGED <<n, combined>>
  /\ UNCHANGED <<rectVars, jsonVars>>

\* combine on two instances (possibly the same one).
Combine(selector1, combinator, selector2) ==
  /\ selector1 \in 1..n
  /\ selector2 \in 1..n
  /\ calls < MaxCalls
  /\ calls' = calls + 1
  /\ LET r == combine(items, selector1, combinator, selector2)
     IN /\ Len(r.heap[selector1]) <= MaxLen
        /\ items' = r.heap
        /\ last' = [NoCall EXCEPT !.op = "combine", !.self = selector1,
                      !.type = COMBINATOR, !.value = combinator,
                      !.other = selector2, !.err = r.err,
                      !.ret = IF r.err = "ok" THEN selector1 ELSE 0,
                      !.pre = items]
  /\ combined' = combined \cup {selector1}
  /\ UNCHANGED n
  /\ UNCHANGED <<rectVars, jsonVars>>

\* stringify on an instance.
Stringify(self) ==
  /\ self \in 1..n
  /\ last' = [NoCall EXCEPT !.op = "stringify", !.self = self,
                !.out = stringify(items[self]), !.pre = items]
  /\ UNCHANGED <<items, n, combined, calls>>
  /\ UNCHANGED <<rectVars, jsonVars>>

Next ==
  \/ \E type \in AppendTypes, value \in Names : FacadeAppend(type, value)
  \/ \E self \in Builders, type \in AppendTypes, value \in Names :
       InstanceAppend(self, type, value)
  \/ \E s1 \in Builders, c \in Tokens, s2 \in Builders : Combine(s1, c, s2)
  \/ \E self \in Builders : Stringify(self)

Spec == Init /\ [][Next]_vars

\* A call of Rectangle(w, h): a freshly allocated object.
CreateRectangle(w, h) ==
  /\ rect' = <<Rectangle(w, h)>>
  /\ written' = [width |-> w, height |-> h,
                 wroteWidth |-> FALSE, wroteHeight |-> FALSE]
  /\ rcall' = [NoRectCall EXCEPT !.op = "create", !.w = w, !.h = h]
  /\ UNCHANGED <<builderVars, jsonVars>>

\* The caller's write r.width = w: width is a plain data property.
WriteWidth(w) ==
  /\ rect # <<>>
  /\ rect' = <<[rect[1] EXCEPT !.width = w]>>
  /\ written' = [written EXCEPT !.width = w, !.wroteWidth = TRUE]
  /\ rcall' = [NoRectCall EXCEPT !.op = "width", !.w = w]
  /\ UNCHANGED <<builderVars, jsonVars>>

\* The caller's write r.height = h.
WriteHeight(h) ==
  /\ rect # <<>>
  /\ rect' = <<[rect[1] EXCEPT !.height = h]>>
  /\ written' = [written EXCEPT !.height = h, !.wroteHeight = TRUE]
  /\ rcall' = [NoRectCall EXCEPT !.op = "height", !.h = h]
  /\ UNCHANGED <<builderVars, jsonVars>>

\* A call of r.getArea().
GetArea ==
  /\ rect # <<>>
  /\ rcall' = [NoRectCall EXCEPT !.op = "getArea", !.area = getArea(rect[1])]
  /\ UNCHANGED <<rect, written, builderVars, jsonVars>>

NextRect ==
  \/ \E w \in Dims, h \in Dims : CreateRectangle(w, h)
  \/ \E w \in Dims : WriteWidth(w)
  \/ \E h \in Dims : WriteHeight(h)
  \/ GetArea

SpecRect == Init /\ [][NextRect]_vars

\* A caller makes a template: X.prototype, new X(), or an X of its own.
NewTemplate(kind, fields) ==
  /\ Len(objs) < MaxObjs
  /\ objs' = Append(objs, [kind |-> kind, fields |-> fields])
  /\ jcall' = [NoJsonCall EXCEPT !.op = "template", !.pre = objs]
  /\ UNCHANGED <<builderVars, rectVars>>

\* A call of fromJSON(proto, json).
FromJSON(proto, json) ==
  /\ proto \in 1..Len(objs)
  /\ Len(objs) < MaxObjs
  /\ LET r == fromJSON(objs, proto, json)
     IN /\ objs' = r.heap
        /\ jcall' = [NoJsonCall EXCEPT !.op = "fromJSON", !.proto = proto,
                       !.json = json, !.err = r.err, !.ret = r.ret,
                       !.pre = objs]
  /\ UNCHANGED <<builderVars, rectVars>>

NextJson ==
  \/ \E kind \in Kinds : \E fields \in TemplateFields(kind) :
       NewTemplate(kind, fields)
  \/ \E proto \in 1..MaxObjs, json \in Texts : FromJSON(proto, json)

SpecJson == Init /\ [][NextJson]_vars

\* ================================================================ claims
\* The vocabulary of the specification, stated apart from the code's.
SingletonKinds == {ELEMENT, ID, PSEUDO_ELEMENT}

\* The rendered text of a fragment of a kind for an argument.
SpecText(kind, arg) ==
  IF kind = ELEMENT THEN arg
  ELSE IF kind = ID THEN <<"#">> \o arg
  ELSE IF kind = CLASS THEN <<".">> \o arg
  ELSE IF kind = ATTR THEN <<"[">> \o arg \o <<"]">>
  ELSE IF kind = PSEUDO_CLASS THEN <<":">> \o arg
  ELSE IF kind = PSEUDO_ELEMENT THEN <<":", ":">> \o arg
  ELSE <<" ">> \o arg \o <<" ">>

SpecFragment(kind, arg) == [value |-> SpecText(kind, arg), type |-> kind]

\* A fragment of the kind exists in the sequence.
Holds(its, kind) == \E i \in DOMAIN its : its[i].type = kind

\* The number of fragments of the kind in the sequence.
CountOf(its, kind) == Cardinality({i \in DOMAIN its : its[i].type = kind})

\* The sequence the last call's receiver held before the call.
PreSelf == last.pre[last.self]

\* The last call was an append on an instance.
Appended == last.op = "append"

\* The duplicate rule (step 1) applies to the last append.
DuplicateRule == last.type \in SingletonKinds /\ Holds(PreSelf, last.type)

\* The last fragment before the last append is of a strictly later kind.
LaterKindLast ==
  Len(PreSelf) > 0 /\ PreSelf[Len(PreSelf)].type > last.type

\* C1: an append of kind K on a non-empty sequence whose last fragment is of
\* a kind strictly later than K (combinator included), to which the duplicate
\* rule does not apply, fails with the selector-order error.
C1_OrderError ==
  (Appended /\ LaterKindLast /\ ~DuplicateRule) => last.err = "order"

\* An id appended after a class, and an append after a trailing combinator.
C1_Witness ==
  /\ Appended /\ LaterKindLast /\ ~DuplicateRule
  /\ last.err = "order"
  /\ PreSelf[Len(PreSelf)].type \in {CLASS, COMBINATOR}

\* C2: appending a singleton kind that already exists anywhere in the
\* sequence, however the sequence was produced, fails with the
\* duplicate-part error.
C2_DuplicateAlwaysRejected ==
  (Appended /\ DuplicateRule) => last.err = "dup"

\* C3: on an instance that was never the left operand of a combine, the
\* second append of a singleton kind fails with the duplicate-part error, and
\* such an instance holds at most one fragment of each singleton kind.
C3_AppendOnlyUnique ==
  /\ (Appended /\ last.self \notin combined /\ DuplicateRule)
       => last.err = "dup"
  /\ \A b \in 1..n : b \notin combined =>
       \A k \in SingletonKinds : CountOf(items[b], k) <= 1

\* A second pseudo-element rejected on an append-only instance.
C3_Witness ==
  /\ Appended /\ last.self \notin combined /\ DuplicateRule
  /\ last.type = PSEUDO_ELEMENT
  /\ last.err = "dup"

\* C4: a rejected append leaves every sequence as it was before the call.
C4_RejectedAppendNoChange ==
  (last.op \in {"append", "facade"} /\ last.err # "ok") => items = last.pre

\* A rejected append on a sequence of two or more fragments.
C4_Witness ==
  /\ Appended /\ last.err # "ok"
  /\ Len(PreSelf) >= 2
  /\ items[last.self] = PreSelf

\* C5: combine(left, token, right) returns left, whose sequence is what left
\* held before, one combinator fragment " token ", then what right held
\* before, for any left and right.
C5_CombineResult ==
  last.op = "combine" =>
    /\ last.err = "ok"
    /\ last.ret = last.self
    /\ items[last.self] =
         PreSelf \o <<SpecFragment(COMBINATOR, last.value)>>
                 \o last.pre[last.other]

\* combine on two distinct instances does what C5 says of any two.
C5_DistinctOperands ==
  (last.op = "combine" /\ last.self # last.other) => C5_CombineResult

\* C6: an append of kind K succeeds when K is not a singleton kind already
\* present and the sequence is empty or ends with a kind not later than K.
C6_ValidAppendSucceeds ==
  (last.op \in {"append", "facade"} /\ ~DuplicateRule /\ ~LaterKindLast)
    => last.err = "ok"

\* A class, attribute or pseudo-class appended right after one of its kind.
C6_Witness ==
  /\ Appended /\ last.err = "ok"
  /\ last.type \in {CLASS, ATTR, PSEUDO_CLASS}
  /\ Len(PreSelf) >= 2
  /\ PreSelf[Len(PreSelf)].type = last.type
  /\ PreSelf[Len(PreSelf) - 1].type = last.type

\* C7: a successful append on an instance returns that instance and puts
\* exactly one fragment, of the appended kind and with the kind's text of
\* the argument, after the fragments the sequence held, which are kept.
C7_AppendExtendsByOne ==
  (Appended /\ last.err = "ok") =>
    /\ last.ret = last.self
    /\ items[last.self] = Append(PreSelf, SpecFragment(last.type, last.value))

\* A pseudo-element appended to a sequence that holds fragments.
C7_Witness ==
  /\ Appended /\ last.err = "ok"
  /\ last.type = PSEUDO_ELEMENT
  /\ Len(PreSelf) >= 1
  /\ Len(items[last.self]) = Len(PreSelf) + 1

\* C8: an append on the facade never fails and returns a newly allocated
\* instance whose sequence is exactly the fragment appended.
C8_FacadeStateless ==
  last.op = "facade" =>
    /\ last.err = "ok"
    /\ last.ret = n
    /\ last.pre[n] = <<>>
    /\ items[n] = <<SpecFragment(last.type, last.value)>>
    /\ \A b \in Builders : b # n => items[b] = last.pre[b]

\* An id appended on the facade when an earlier instance already holds one.
C8_Witness ==
  /\ last.op = "facade" /\ last.type = ID /\ last.err = "ok"
  /\ n >= 2
  /\ Holds(items[n - 1], ID)
  /\ Len(items[n]) = 1

\* The fragments' texts from the first to the k-th, put end to end.
RECURSIVE TextUpTo(_, _)
TextUpTo(its, k) ==
  IF k = 0 THEN <<>> ELSE TextUpTo(its, k - 1) \o its[k].value

\* Every fragment's text is the text of its kind for some argument.
WellFormedText(its) ==
  \A i \in DOMAIN its :
    \E arg \in Names \cup Tokens : its[i] = SpecFragment(its[i].type, arg)

\* C9: stringify returns the fragments' texts in sequence order with nothing
\* between them, each the text of its kind, and changes no sequence.
C9_Stringify ==
  last.op = "stringify" =>
    /\ last.out = TextUpTo(items[last.self], Len(items[last.self]))
    /\ WellFormedText(items[last.self])
    /\ items = last.pre

\* stringify of a combined sequence.
C9_Witness ==
  /\ last.op = "stringify"
  /\ Len(items[last.self]) >= 3
  /\ Holds(items[last.self], COMBINATOR)
  /\ Holds(items[last.self], PSEUDO_ELEMENT)
  /\ Len(last.out) > Len(items[last.self])

\* C10: in every sequence, two neighbouring fragments neither of which is a
\* combinator are in non-decreasing kind order.
C10_RunsOrdered ==
  \A b \in 1..n : \A i \in 1..(Len(items[b]) - 1) :
    (items[b][i].type # COMBINATOR /\ items[b][i + 1].type # COMBINATOR)
      => items[b][i].type <= items[b][i + 1].type

\* An append accepted on an instance after it absorbed another one.
C10_Witness ==
  /\ Appended /\ last.err = "ok"
  /\ last.self \in combined
  /\ Holds(PreSelf, COMBINATOR)
  /\ PreSelf[Len(PreSelf)].type # COMBINATOR
  /\ last.type > ELEMENT

\* The last call was a combine.
Combined == last.op = "combine"

\* C14: combine never raises the duplicate-part or the selector-order error,
\* whatever left ends with and right holds: it returns left, whose sequence
\* now starts with what left held followed by a combinator fragment.
C14_CombineNeverRejected ==
  Combined =>
    /\ last.err = "ok"
    /\ last.ret = last.self
    /\ Len(items[last.self]) > Len(PreSelf)
    /\ SubSeq(items[last.self], 1, Len(PreSelf)) = PreSelf
    /\ items[last.self][Len(PreSelf) + 1] =
         SpecFragment(COMBINATOR, last.value)

\* A combine of two distinct instances that both hold an id, or whose left
\* ends with a pseudo-element while the right starts with an element.
C14_Witness ==
  /\ Combined /\ last.err = "ok" /\ last.self # last.other
  /\ \/ Holds(PreSelf, ID) /\ Holds(last.pre[last.other], ID)
     \/ /\ PreSelf[Len(PreSelf)].type = PSEUDO_ELEMENT
        /\ last.pre[last.other][1].type = ELEMENT
  /\ CountOf(items[last.self], COMBINATOR) = 1

\* C15: an append changes only the sequence of the instance it is called on,
\* and a combine of two distinct instances changes only the left one's; so an
\* append to one operand after a combine leaves the other operand as it was.
C15_OwnSequenceOnly ==
  /\ last.op \in {"append", "facade"} =>
       \A b \in Builders : b # last.self => items[b] = last.pre[b]
  /\ (Combined /\ last.self # last.other) =>
       \A b \in Builders : b # last.self => items[b] = last.pre[b]

\* An append accepted on the right operand of an earlier combine: the left
\* operand still ends with what the right operand held before the append.
C15_Witness ==
  /\ Appended /\ last.err = "ok"
  /\ \E b \in combined :
       /\ b # last.self
       /\ items[b] = last.pre[b]
       /\ \E k \in DOMAIN items[b] :
            /\ items[b][k].type = COMBINATOR
            /\ SubSeq(items[b], k + 1, Len(items[b])) = PreSelf
  /\ items[last.self] # PreSelf

\* C16: an append that breaks both rules at once (a singleton kind already
\* present, and the last fragment of a later kind) gets the duplicate-part
\* error.
C16_DuplicateBeforeOrder ==
  (Appended /\ DuplicateRule /\ LaterKindLast) => last.err = "dup"

\* The fragments of the sequence from position i to position j hold no
\* combinator: they belong to one compound selector.
SameCompound(its, i, j) ==
  \A k \in i..j : its[k].type # COMBINATOR

\* C17: no compound selector of any instance holds two fragments of the same
\* singleton kind.
C17_CompoundUnique ==
  \A b \in 1..n : \A i, j \in DOMAIN items[b] :
    (i < j /\ items[b][i].type \in SingletonKinds
           /\ items[b][i].type = items[b][j].type)
      => ~SameCompound(items[b], i, j)

\* The fields a JSON text gives: for each name it mentions, the value of the
\* last member of that name.
TextFields(json) ==
  LET q == json.members
      names == {q[i][1] : i \in DOMAIN q}
      lastOf(f) == CHOOSE i \in DOMAIN q :
                     q[i][1] = f /\ \A j \in DOMAIN q : q[j][1] = f => j <= i
  IN [f \in names |-> q[lastOf(f)][2]]

\* The last call was a fromJSON that returned.
Decoded == jcall.op = "fromJSON" /\ jcall.err = "ok"

\* The template of the last fromJSON call, the object it returned, and the
\* default fields of the template's kind.
Template == jcall.pre[jcall.proto]
Returned == objs[jcall.ret]
Defaults == Construct(Template.kind)

\* C11 as stated: the returned value is of the template's kind and its fields
\* are exactly the fields of the text.
C11_ExactlyParsedFields ==
  Decoded =>
    /\ Returned.kind = Template.kind
    /\ Returned.fields = TextFields(jcall.json)

\* C11 as amended: the returned value is of the template's kind; its fields
\* are the fields of the text, with the text's values, together with the
\* default fields the text does not name; they are exactly the fields of the
\* text when the text names every default field.
C11_ParsedAndDefaultFields ==
  Decoded =>
    /\ Returned.kind = Template.kind
    /\ DOMAIN Returned.fields =
         DOMAIN TextFields(jcall.json) \cup DOMAIN Defaults
    /\ \A f \in DOMAIN TextFields(jcall.json) :
         Returned.fields[f] = TextFields(jcall.json)[f]
    /\ DOMAIN Defaults \subseteq DOMAIN TextFields(jcall.json)
         => Returned.fields = TextFields(jcall.json)

\* A Point decoded from a text that names radius only: the result has the
\* text's radius and the two default coordinates.
C11_Witness ==
  /\ Decoded
  /\ Template.kind = "Point"
  /\ DOMAIN TextFields(jcall.json) = {"radius"}
  /\ DOMAIN Returned.fields = {"radius", "x", "y"}

\* C12: the returned object is a new one; each field of the text is in it with
\* the text's value, also when a default has the same name; each default
\* field the text does not name keeps its default value; the template is as
\* it was before the call.
C12_OverlayOnDefaults ==
  Decoded =>
    /\ jcall.ret # jcall.proto
    /\ jcall.ret \notin DOMAIN jcall.pre
    /\ \A f \in DOMAIN TextFields(jcall.json) :
         /\ f \in DOMAIN Returned.fields
         /\ Returned.fields[f] = TextFields(jcall.json)[f]
    /\ \A f \in DOMAIN Defaults \ DOMAIN TextFields(jcall.json) :
         /\ f \in DOMAIN Returned.fields
         /\ Returned.fields[f] = Defaults[f]
    /\ \A o \in DOMAIN jcall.pre : objs[o] = jcall.pre[o]

\* A Point decoded from a text that names x and not y, with a template whose
\* own fields differ from the defaults: x is the text's, y the default.
C12_Witness ==
  /\ Decoded
  /\ Template.kind = "Point"
  /\ Template.fields = [f \in {"x", "y"} |-> "5"]
  /\ DOMAIN TextFields(jcall.json) = {"x"}
  /\ Returned.fields["x"] # "0"
  /\ Returned.fields["y"] = "0"

\* C13: getArea returns the product of the width and the height last written
\* to the rectangle, by Rectangle(w, h) or by the caller, which are the ones
\* it holds; Rectangle(w, h) returns an object holding w and h.
C13_AreaIsProduct ==
  /\ rcall.op = "getArea" =>
       /\ rcall.area = written.width * written.height
       /\ rcall.area = rect[1].width * rect[1].height
  /\ rcall.op = "create" =>
       rect = <<[width |-> rcall.w, height |-> rcall.h]>>

\* getArea after the caller wrote both fields.
C13_Witness ==
  /\ rcall.op = "getArea"
  /\ written.wroteWidth /\ written.wroteHeight
  /\ written.width = 3 /\ written.height = 2
  /\ rcall.area = 6

====
